---- MODULE Spec2Model ----
(***************************************************************************)
(* Model of prisoner.py: the rejection-sampling permutation generator      *)
(* (_generate_boxes), the cycle-following trial (run_optimized) and the    *)
(* driver loop of __main__.  One action per control step of the source;    *)
(* pc is the position of the single thread of control.                     *)
(***************************************************************************)
EXTENDS Integers, Sequences, FiniteSets

\* Bounds: the population size and the number of runs are 100 and 100_000 in
\* the source; the model draws them from 1..MaxN and 1..MaxRuns.
MaxN == 4
MaxRuns == 2

\* Python's None in a box that holds no slip yet.
None == -1

VARIABLES
    count,       \* argument of run_optimized / _generate_boxes
    runs,        \* __main__: runs
    wins,        \* __main__: wins
    trial,       \* __main__: number of completed iterations of the for loop
    results,     \* history: the return values of the completed trials
    pc,          \* control position
    result,      \* return value of run_optimized, valid at pc = "returned"
    chances,     \* run_optimized: chances
    boxes,       \* boxes (built by _generate_boxes, read by run_optimized)
    gen_slip,    \* _generate_boxes: slip (loop variable)
    slip_box,    \* _generate_boxes: slip_box
    slips_seen,  \* run_optimized: slips_seen
    prisoner,    \* run_optimized: prisoner (loop variable)
    next_box,    \* run_optimized: next_box
    idx,         \* run_optimized: idx (loop variable)
    slip,        \* run_optimized: slip
    reads        \* history: reads[p] = the slips prisoner p has read, in order

vars == <<count, runs, wins, trial, results, pc, result, chances, boxes,
          gen_slip, slip_box, slips_seen, prisoner, next_box, idx, slip, reads>>

main_vars == <<count, runs, wins, trial, results>>
gen_vars == <<gen_slip, slip_box>>
trial_vars == <<slips_seen, prisoner, next_box, idx, slip, reads>>

Idx(n) == 0 .. (n - 1)

\* ---- pieces of the source that the actions are built from ----

\* line 19: chances = int(count / 2)
ChancesRoundUp(n) == (n + 1) \div 2
ChancesAll(n) == n
ChancesTooFew(n) == (n - 1) \div 2
Chances(n) == n \div 2

\* line 5: boxes = [None for _ in range(count)]
EmptyBoxes(n) == [b \in Idx(n) |-> None]

\* line 9: random.randint(0, count - 1)
PickRangeSkipFirst(n) == 1 .. (n - 1)
PickRange(n) == 0 .. (n - 1)

\* line 11: boxes[slip_box] == None
IsEmptyBoxAlways(bx, b) == TRUE
IsEmptyBox(bx, b) == bx[b] = None

\* line 21: slips_seen = [False for _ in range(count)]
NewSlipsSeen(n) == [p \in Idx(n) |-> FALSE]

\* line 30: idx == chances
ExhaustedLate(i, c) == i = c + 1
Exhausted(i, c) == i = c

\* line 34: slips_seen[prisoner] = True
MarkSeen(seen, p, s) == [seen EXCEPT ![p] = TRUE]

\* line 36: slip == prisoner
FoundNever(s, p) == FALSE
Found(s, p) == s = p

\* line 49: wins += int(run_optimized(100))
AddWinAlways(w, r) == w + 1
AddWin(w, r) == w + (IF r THEN 1 ELSE 0)

NoReads(n) == [p \in Idx(n) |-> << >>]

\* ---- initial state: __main__ lines 45-46, no call in progress ----

Init ==
    /\ count \in 1 .. MaxN
    /\ runs \in 1 .. MaxRuns
    /\ wins = 0
    /\ trial = 0
    /\ results = << >>
    /\ pc = "main"
    /\ result = FALSE
    /\ chances = 0
    /\ boxes = EmptyBoxes(count)
    /\ gen_slip = 0
    /\ slip_box = 0
    /\ slips_seen = NewSlipsSeen(count)
    /\ prisoner = 0
    /\ next_box = 0
    /\ idx = 0
    /\ slip = None
    /\ reads = NoReads(count)

\* ---- __main__ ----

\* line 48 (loop continues), line 49 (call), lines 19-20 and 5, 7 (entry)
MainCall ==
    /\ pc = "main"
    /\ trial < runs
    /\ chances' = Chances(count)
    /\ boxes' = EmptyBoxes(count)
    /\ gen_slip' = 0
    /\ pc' = IF 0 < count THEN "gen_pick" ELSE "gen_done"
    /\ UNCHANGED <<main_vars, result, slip_box, trial_vars>>

\* line 48 (loop over), line 51
MainPrint ==
    /\ pc = "main"
    /\ trial >= runs
    /\ pc' = "done"
    /\ UNCHANGED <<main_vars, result, chances, boxes, gen_vars, trial_vars>>

\* line 49: the call has returned; wins += int(result); the frame is gone
DriverAdd ==
    /\ pc = "returned"
    /\ wins' = AddWin(wins, result)
    /\ results' = Append(results, result)
    /\ trial' = trial + 1
    /\ pc' = "main"
    /\ result' = FALSE
    /\ chances' = 0
    /\ boxes' = EmptyBoxes(count)
    /\ gen_slip' = 0
    /\ slip_box' = 0
    /\ slips_seen' = NewSlipsSeen(count)
    /\ prisoner' = 0
    /\ next_box' = 0
    /\ idx' = 0
    /\ slip' = None
    /\ reads' = NoReads(count)
    /\ UNCHANGED <<count, runs>>

\* ---- _generate_boxes ----

\* line 9
GenPickBox(b) ==
    /\ pc = "gen_pick"
    /\ slip_box' = b
    /\ pc' = "gen_test"
    /\ UNCHANGED <<main_vars, result, chances, boxes, gen_slip, trial_vars>>

GenPick == \E b \in PickRange(count) : GenPickBox(b)

\* a pick that lands on a box that is still empty
GenPickEmpty == \E b \in PickRange(count) : IsEmptyBox(boxes, b) /\ GenPickBox(b)

\* lines 11-13, then line 7 for the next slip
GenPlace ==
    /\ pc = "gen_test"
    /\ IsEmptyBox(boxes, slip_box)
    /\ boxes' = [boxes EXCEPT ![slip_box] = gen_slip]
    /\ gen_slip' = gen_slip + 1
    /\ pc' = IF gen_slip + 1 < count THEN "gen_pick" ELSE "gen_done"
    /\ UNCHANGED <<main_vars, result, chances, slip_box, trial_vars>>

\* line 11 false, back to line 8
GenReject ==
    /\ pc = "gen_test"
    /\ ~IsEmptyBox(boxes, slip_box)
    /\ pc' = "gen_pick"
    /\ UNCHANGED <<main_vars, result, chances, boxes, gen_vars, trial_vars>>

\* line 15, then lines 20-21 and the start of the loop of line 23
GenReturn ==
    /\ pc = "gen_done"
    /\ slips_seen' = NewSlipsSeen(count)
    /\ prisoner' = 0
    /\ reads' = NoReads(count)
    /\ pc' = "for_prisoner"
    /\ UNCHANGED <<main_vars, result, chances, boxes, gen_vars, next_box, idx, slip>>

\* ---- run_optimized ----

\* lines 23-27, and line 29 for idx = 0
PrisonerStart ==
    /\ pc = "for_prisoner"
    /\ prisoner < count
    /\ next_box' = prisoner
    /\ IF slips_seen[prisoner]
       THEN /\ prisoner' = prisoner + 1
            /\ pc' = "for_prisoner"
            /\ idx' = idx
       ELSE /\ idx' = 0
            /\ IF 0 < chances + 1
               THEN /\ pc' = "for_idx"
                    /\ prisoner' = prisoner
               ELSE /\ pc' = "for_prisoner"
                    /\ prisoner' = prisoner + 1
    /\ UNCHANGED <<main_vars, result, chances, boxes, gen_vars, slips_seen, slip, reads>>

\* line 23 (loop over), line 41
ReturnTrue ==
    /\ pc = "for_prisoner"
    /\ prisoner >= count
    /\ result' = TRUE
    /\ pc' = "returned"
    /\ UNCHANGED <<main_vars, chances, boxes, gen_vars, trial_vars>>

\* lines 30-31
ReturnFalse ==
    /\ pc = "for_idx"
    /\ Exhausted(idx, chances)
    /\ result' = FALSE
    /\ pc' = "returned"
    /\ UNCHANGED <<main_vars, chances, boxes, gen_vars, trial_vars>>

\* line 30 false, lines 33-34
OpenBox ==
    /\ pc = "for_idx"
    /\ ~Exhausted(idx, chances)
    /\ slip' = boxes[next_box]
    /\ slips_seen' = MarkSeen(slips_seen, prisoner, boxes[next_box])
    /\ reads' = [reads EXCEPT ![prisoner] = Append(@, boxes[next_box])]
    /\ pc' = "check"
    /\ UNCHANGED <<main_vars, result, chances, boxes, gen_vars, prisoner, next_box, idx>>

\* lines 36-37, then line 23 for the next prisoner
FoundSlip ==
    /\ pc = "check"
    /\ Found(slip, prisoner)
    /\ prisoner' = prisoner + 1
    /\ pc' = "for_prisoner"
    /\ UNCHANGED <<main_vars, result, chances, boxes, gen_vars, slips_seen, next_box, idx, slip, reads>>

\* line 36 false, line 39, then line 29 for the next idx
FollowSlip ==
    /\ pc = "check"
    /\ ~Found(slip, prisoner)
    /\ next_box' = slip
    /\ IF idx + 1 < chances + 1
       THEN /\ idx' = idx + 1
            /\ pc' = "for_idx"
            /\ prisoner' = prisoner
       ELSE /\ idx' = idx
            /\ pc' = "for_prisoner"
            /\ prisoner' = prisoner + 1
    /\ UNCHANGED <<main_vars, result, chances, boxes, gen_vars, slips_seen, slip, reads>>

Next ==
    \/ MainCall
    \/ MainPrint
    \/ DriverAdd
    \/ GenPick
    \/ GenPlace
    \/ GenReject
    \/ GenReturn
    \/ PrisonerStart
    \/ ReturnTrue
    \/ ReturnFalse
    \/ OpenBox
    \/ FoundSlip
    \/ FollowSlip

Spec == Init /\ [][Next]_vars

\* The program keeps running, and the random pick is fair: whenever an empty
\* box exists, an empty box is eventually picked.
FairSpec == Spec /\ WF_vars(Next) /\ SF_vars(GenPickEmpty)

\* The program keeps running, but nothing is assumed of the random picks.
RunSpec == Spec /\ WF_vars(Next)

\* ---- vocabulary of the properties ----

GenPcs == {"gen_pick", "gen_test"}
SearchPcs == {"for_prisoner", "for_idx", "check"}
AfterGenPcs == {"gen_done", "for_prisoner", "for_idx", "check", "returned"}

Range(s) == {s[i] : i \in 1 .. Len(s)}

\* every value 0..n-1 is in exactly one box, and no box is empty
IsBijection(bx, n) ==
    /\ DOMAIN bx = Idx(n)
    /\ \A b \in Idx(n) : bx[b] # None
    /\ \A v \in Idx(n) : Cardinality({b \in Idx(n) : bx[b] = v}) = 1

IsIdentity(bx, n) == \A p \in Idx(n) : bx[p] = p
IsShift(bx, n) == \A i \in Idx(n) : bx[i] = (i + 1) % n

\* the box reached from box p after k steps along the permutation
RECURSIVE Iter(_, _, _)
Iter(bx, p, k) == IF k = 0 THEN p ELSE bx[Iter(bx, p, k - 1)]

\* length of the cycle of the permutation bx through p
CycleLen(bx, n, p) ==
    CHOOSE k \in 1 .. n :
        /\ Iter(bx, p, k) = p
        /\ \A j \in 1 .. (k - 1) : Iter(bx, p, j) # p

LongestCycle(bx, n) ==
    CHOOSE m \in 1 .. n :
        /\ \E p \in Idx(n) : CycleLen(bx, n, p) = m
        /\ \A p \in Idx(n) : CycleLen(bx, n, p) <= m

\* prisoner p has read the slip with their own number
OwnSlipRead(p) == p \in Range(reads[p])

\* ---- C1 ----
\* C1: when a trial returns, its result is True if and only if the longest
\* cycle of the permutation has length at most floor(N/2); in particular the
\* trial on boxes = [1,0,3,2] returns True.
C1_ResultIffCyclesFit ==
    pc = "returned" => (result <=> (LongestCycle(boxes, count) <= count \div 2))

W_C1_TwoShortCycles ==
    /\ pc = "returned"
    /\ count = 4
    /\ boxes = [b \in Idx(4) |-> <<1, 0, 3, 2>>[b + 1]]
    /\ result = TRUE

\* ---- C2 ----
\* C2 as stated: for every N >= 1, on the identity permutation every prisoner
\* finds their slip on their first opening and the trial returns True.
CE_C2_IdentityAnyN ==
    (pc = "returned" /\ IsIdentity(boxes, count)) =>
        (result = TRUE /\ \A p \in Idx(count) : reads[p] = <<p>>)

\* C2 amended: for every N >= 2, on the identity permutation every prisoner
\* finds their slip on their first opening and the trial returns True.
C2_IdentityFromTwo ==
    (pc = "returned" /\ count >= 2 /\ IsIdentity(boxes, count)) =>
        (result = TRUE /\ \A p \in Idx(count) : reads[p] = <<p>>)

W_C2_IdentityReturned ==
    /\ pc = "returned"
    /\ count >= 2
    /\ IsIdentity(boxes, count)
    /\ reads[count - 1] = <<count - 1>>

\* ---- C3 ----
\* C3: for N >= 2, once _generate_boxes has returned, boxes has length N and
\* is a bijection on [0, N): every value is in exactly one box, none is empty.
C3_GeneratedBijection ==
    (count >= 2 /\ pc \in AfterGenPcs) => IsBijection(boxes, count)

W_C3_Generated ==
    /\ pc = "gen_done"
    /\ count >= 3
    /\ boxes[0] = count - 1

\* ---- C4 ----
\* C4: for N >= 4, a trial on a permutation that is a single cycle of length
\* N returns False.
C4_FullCycleFails ==
    (pc = "returned" /\ count >= 4 /\ LongestCycle(boxes, count) = count) =>
        result = FALSE

W_C4_ShiftFails ==
    /\ pc = "returned"
    /\ count >= 4
    /\ IsShift(boxes, count)
    /\ result = FALSE

\* ---- C5 ----
\* C5: the driver runs exactly runs trials; each trial starts its generator
\* on all-empty boxes and its prisoners' loop on all-false visited marks (and
\* no box opened); after k trials wins is the number of those trials that
\* returned True, so 0 <= wins <= k, and the final count is the number of
\* successful trials.
C5_DriverCounts ==
    /\ Len(results) = trial
    /\ trial <= runs
    /\ (pc = "done" => trial = runs)
    /\ wins = Cardinality({i \in 1 .. Len(results) : results[i]})
    /\ 0 <= wins /\ wins <= trial
    /\ ((pc = "gen_pick" /\ gen_slip = 0) => boxes = EmptyBoxes(count))
    /\ ((pc = "for_prisoner" /\ prisoner = 0) =>
            /\ slips_seen = [p \in Idx(count) |-> FALSE]
            /\ \A p \in Idx(count) : reads[p] = << >>)

W_C5_MixedRuns ==
    /\ pc = "done"
    /\ trial >= 2
    /\ wins >= 1
    /\ wins < trial

\* ---- C6 ----
\* C6: a prisoner never has opened more than floor(N/2) boxes, and a prisoner
\* who has read their own slip opens no further box in that trial.
C6_Budget == \A p \in Idx(count) : Len(reads[p]) <= count \div 2

C6_StopStep ==
    pc \in SearchPcs =>
        (\A p \in Idx(count) : OwnSlipRead(p) => (reads'[p] = reads[p]))

C6_StopAfterFound == [][C6_StopStep]_vars

C6_OpeningsBounded == []C6_Budget /\ C6_StopAfterFound

W_C6_FullBudgetUsed ==
    /\ pc = "check"
    /\ count >= 4
    /\ \E p \in Idx(count) :
          /\ p < prisoner
          /\ OwnSlipRead(p)
          /\ Len(reads[p]) = count \div 2

\* ---- C7 ----
\* C7: when the prisoner being searched for has opened floor(N/2) boxes
\* without reading their own slip, the next step ends the trial with result
\* False; and no prisoner with a greater index than the current one has
\* opened any box, also after the trial has returned.
C7_FailStep ==
    (pc = "for_idx" /\ Len(reads[prisoner]) = count \div 2 /\ ~OwnSlipRead(prisoner))
        => (pc' = "returned" /\ result' = FALSE /\ reads' = reads)

C7_FailNow == [][C7_FailStep]_vars

C7_LaterUntouched ==
    (pc \in SearchPcs \cup {"returned"}) =>
        \A p \in Idx(count) : p > prisoner => reads[p] = << >>

C7_ShortCircuit == C7_FailNow /\ []C7_LaterUntouched

W_C7_FailedMidway ==
    /\ pc = "returned"
    /\ result = FALSE
    /\ prisoner >= 1
    /\ prisoner < count - 1
    /\ Len(reads[prisoner]) = count \div 2
    /\ ~OwnSlipRead(prisoner)

\* ---- C8 ----
\* C8: right after a search step has read slip value v, slips_seen[v] is
\* true; and a visited mark that is true stays true for the rest of the trial.
C8_MarksStayStep ==
    pc \in SearchPcs =>
        (\A p \in Idx(count) : slips_seen[p] => slips_seen'[p])

C8_MarksStay == [][C8_MarksStayStep]_vars

CE_C8_ReadSlipMarked == [](pc = "check" => slips_seen[slip]) /\ C8_MarksStay

\* ---- C9 ----
\* C9: a prisoner whose slip was read during the search of an earlier
\* prisoner opens no box in that trial.
CE_C9_SeenPrisonerSkips ==
    \A p \in Idx(count) :
        (\E q \in Idx(count) : q < p /\ p \in Range(reads[q])) => reads[p] = << >>

\* ---- C10 ----
\* C10: with a fair random pick _generate_boxes returns; whenever it is about
\* to pick or test a box an empty box exists; and a filled box is never
\* overwritten while it runs.
C10_Returns == (pc \in GenPcs) ~> (pc = "gen_done")

C10_EmptyBoxExists ==
    pc \in GenPcs => \E b \in Idx(count) : boxes[b] = None

C10_NoOverwriteStep ==
    pc \in GenPcs =>
        (\A b \in Idx(count) : boxes[b] # None => (boxes'[b] = boxes[b]))

C10_NoOverwrite == [][C10_NoOverwriteStep]_vars

C10_GeneratorTerminates == C10_Returns /\ []C10_EmptyBoxExists /\ C10_NoOverwrite

W_C10_RetryOnLastSlip ==
    /\ pc = "gen_test"
    /\ boxes[slip_box] # None
    /\ gen_slip = count - 1
    /\ count >= 2

====
